---- MODULE Spec2Model ----
(***************************************************************************)
(* Model of the bitfinex-connector: the lock primitives (lib/Mutex.js,     *)
(* lib/Semaphore.js and the wait/notify Mutex), the Bounded Counter        *)
(* (lib/Counter.js and its awaiting variant) and the connection pool       *)
(* manager of lib/exchange/Bitfinex.js.                                    *)
(***************************************************************************)
EXTENDS Integers, Sequences, FiniteSets, TLC

(***************************************************************************)
(* Part 1: the lock primitives.                                            *)
(***************************************************************************)

\* lib/Mutex.js:5-6 (the same two values in Semaphore.js and the variants)
LOCKED == 0
UNLOCKED == 1

\* Bounds of the lock model: handles over one lock word, and the flows
\* (async callers) that use them; flow c uses handle HandleOf(c).
NumHandles == 2
NumCallers == 3

\* Bounds of the counter model: calling flows, capacities, the values an
\* unconditional inc/dec may reach, and pending un-awaited enter() promises.
NumCtrCalls == 3
MaxCap == 3
MaxCount == 3
MaxPollers == 2

CtrCalls == 1..NumCtrCalls

\* Bounds of the pool model: contexts, trading pairs, subscribe calls in
\* a run, and transport faults / reconnect requests in a run.
NumMgrs == 2
NumPairs == 3
NumCalls == 3
MaxFaults == 1

\* Bounds of the single-connection model: pairs subscribed on the
\* connection, and transport closes / reconnect requests in a run.
NumConnPairs == 2
MaxConnCloses == 2

\* Unsubscribe calls made on the connection in a run.
NumUCalls == 2

UCalls == 1..NumUCalls

ConnPairs == 1..NumConnPairs

Mgrs == 1..NumMgrs
Pairs == 1..NumPairs
Calls == 1..NumCalls

\* The maxPairs options the model is run with.
MaxPairsValues == {2, 3}

Handles == 1..NumHandles
Callers == 1..NumCallers
HandleOf(c) == ((c - 1) % NumHandles) + 1

\* The three lock implementations of the repository.
Kinds == {"Mutex", "Semaphore", "WaitNotify"}

VARIABLES
  kind,      \* which implementation the handles are instances of
  lock,      \* the lock word (this.lock[0])
  owner,     \* Mutex.#owner of every handle
  pc,        \* position of every flow: idle, polling, wait, asleep, cas, held
  leaveRet,  \* what the flow's last leave() returned: "none", "true", "false"
  polled,    \* whether the flow's interval timer has fired in this poll interval
  age,       \* poll intervals elapsed since the word was released to a waiter
  everAcq,   \* handles through which some acquire has ever succeeded
  built      \* handles whose constructor has run

lockVars == <<kind, lock, owner, pc, leaveRet, polled, age, everAcq, built>>

\* State of one Bounded Counter and of the flows calling its methods.
VARIABLES
  cvar,      \* the class: "Counter" (lib/Counter.js) or "CounterAwait"
  cap,       \* the capacity its compareInc calls are given
  counter,   \* Counter.#counter
  csem,      \* the lock word of Counter.#semaphore
  cpollers,  \* enter() promises of #semaphore that nobody awaits, still polling
  cpc,       \* position of every calling flow: idle, entering, inside
  cop,       \* the method the flow last called
  cret       \* what that call returned: "none", "true", "false"

ctrVars == <<cvar, cap, counter, csem, cpollers, cpc, cop, cret>>

\* State of the pool managers (BitfinexMultiClient), one per context, of
\* their pooled connections (BitfinexClient) and of the subscribe calls.
VARIABLES
  single,       \* the singleThread option: one context, locker is a Semaphore
  maxPairs,     \* this.maxPairs
  locker,       \* the lock word behind this.locker of every manager
  lockerOwner,  \* Mutex.#owner of every manager's locker handle
  sem1,         \* the lock word of every manager's this.sem1
  pairs,        \* #pairs of every manager: pair -> index in connects, 0 if absent
  connects,     \* this.connects of every manager, with each entry's client
  calls,        \* the subscribe(market) calls made so far
  faults        \* transport faults and reconnect requests so far

poolVars ==
  <<single, maxPairs, locker, lockerOwner, sem1, pairs, connects, calls, faults>>

\* State of one pooled Exchange Connection (BitfinexClient) of context 1,
\* of the flows that create and reconnect it, and of the creation flow of
\* another context contending for the same locker.
VARIABLES
  socket,      \* this.#socket: "none", "connecting", "open", or "closed"
               \* (closed or abandoned, its listeners removed)
  ready,       \* this.#ready
  tradesSub,   \* keys of this.#tradesSub
  channels,    \* pairs with a channel id bound in #channels / #channelsOp
  cphase,      \* creation flow: wantCreate, connecting, throttle, resolved
  rwait,       \* a reconnect() awaits parent.locker.enter()
  rhold,       \* a reconnect() holds the locker: opening, timer, lost; or none
  other,       \* the other context's creation flow: idle, polling,
               \* connecting, throttle
  sub,         \* the last subscribeTrades call made for every pair: none,
               \* waitReady, pending, true, false, undef
  armed,       \* pairs whose call has its once-listener and timeout armed
  replayWait,  \* resubscribe loops of reconnect() suspended in isReady()
  report,      \* what the last message handler did besides its effect:
               \* none, error (emitted `error`), threw (raised an exception)
  sentCall,    \* subscribe frames sent on the current socket by calls
  sentReplay,  \* subscribe frames sent on the current socket by resubscribe loops
  handshaken,  \* the last readiness info received on the current socket marked it ready
  shook,       \* a readiness handshake has completed on the current socket
  reopened,    \* the current socket was constructed by reconnect() and has opened
  subAtOpen,   \* tradesSub as it was when that socket opened
  sinceHs,     \* time since the last handshake in the group: none (no
               \* handshake yet), fresh (less than throttleMs may have
               \* passed), spaced (throttleMs or more has passed)
  timerFresh,  \* the throttle timer now running started at or after the
               \* last handshake
  ping,        \* the keepalive interval (#pingInterval) is running
  stale,       \* pairs whose channel id was bound on an earlier socket
  count,       \* the Counter of the connection's pool entry
  unsub,       \* the unsubscribeTrades calls made so far
  unsubSent    \* channels of the current socket for which the exchange
               \* has received an unsubscribe frame it has not answered

connVars ==
  <<socket, ready, tradesSub, channels, cphase, rwait, rhold, other, sub, armed,
    replayWait, report, sentCall, sentReplay, handshaken, shook, reopened,
    subAtOpen, sinceHs, timerFresh, ping, stale, count, unsub, unsubSent>>

\* One channel update handed to #updateDecode and the `trade` events the
\* connection has emitted for it.
VARIABLES
  update,      \* the frame [chanId, type, [id, unix, amount, price], sequenceId?]
  trades       \* the trade records emitted

decVars == <<update, trades>>

nonLockVars == <<ctrVars, poolVars, connVars, decVars>>
nonCtrVars == <<lockVars, poolVars, connVars, decVars>>
nonPoolVars == <<lockVars, ctrVars, connVars, decVars>>

\* What a connection's actions leave alone outside the connection and the
\* locker it shares.
nonConnVars ==
  <<lockVars, ctrVars, single, maxPairs, sem1, pairs, connects, calls, decVars>>

\* A mutation of CompareExchange that swaps whatever the word held.
CompareExchangeBlind(word, expected, replacement) ==
  [old |-> expected, new |-> replacement]

\* Atomics.compareExchange(this.lock, 0, expected, replacement): the old
\* value is returned, the word is replaced only when it held `expected`.
CompareExchange(word, expected, replacement) ==
  [old |-> word, new |-> IF word = expected THEN replacement ELSE word]

\* A mutation of EnterTick that expects LOCKED, so that a released word is
\* never taken.
EnterTickWrongExpected(k, word, own) ==
  LET r == CompareExchange(word, LOCKED, LOCKED)
      got == r.old = UNLOCKED /\ r.new = LOCKED
  IN [lock |-> r.new, owner |-> own, acquired |-> got]

\* One firing of the interval callback of enter(): the compare-and-swap of
\* UNLOCKED to LOCKED; on success the handle is marked owner (Mutex only),
\* the interval is cleared and the promise resolves.
EnterTick(k, word, own) ==
  LET r == CompareExchange(word, UNLOCKED, LOCKED)
      got == r.old = UNLOCKED
  IN [lock |-> r.new,
      owner |-> IF got /\ k = "Mutex" THEN TRUE ELSE own,
      acquired |-> got]

\* A mutation of MutexLeave without the ownership test.
MutexLeaveUnchecked(word, own) ==
  [lock |-> UNLOCKED, owner |-> own, ret |-> "true"]

\* Mutex.leave of lib/Mutex.js: refused when the handle's #owner is false,
\* otherwise the word is stored UNLOCKED; #owner is left as it is.
MutexLeave(word, own) ==
  IF ~own
    THEN [lock |-> word, owner |-> own, ret |-> "false"]
    ELSE [lock |-> UNLOCKED, owner |-> own, ret |-> "true"]

\* Semaphore.leave: stores UNLOCKED and returns true, whoever calls.
SemaphoreLeave(word, own) ==
  [lock |-> UNLOCKED, owner |-> own, ret |-> "true"]

\* leave() of the wait/notify Mutex: stores UNLOCKED (and notifies one
\* waiter, see Notify); it returns nothing.
WaitNotifyLeave(word, own) ==
  [lock |-> UNLOCKED, owner |-> own, ret |-> "none"]

LockLeave(k, word, own) ==
  CASE k = "Mutex" -> MutexLeave(word, own)
    [] k = "Semaphore" -> SemaphoreLeave(word, own)
    [] OTHER -> WaitNotifyLeave(word, own)

Polling == {c \in Callers : pc[c] = "polling"}
Asleep == {c \in Callers : pc[c] = "asleep"}
Holders == {c \in Callers : pc[c] = "held"}
Blocked == {c \in Callers : pc[c] \in {"polling", "wait", "asleep", "cas"}}

\* Atomics.wait blocks the whole thread of the handle: while one flow of
\* a handle is inside the wait/notify enter(), no other flow of it runs.
ThreadFree(h) ==
  kind = "WaitNotify" =>
    \A d \in Callers : HandleOf(d) = h => pc[d] \notin {"wait", "asleep", "cas"}

\* new Counter(): value 0, its Semaphore constructed UNLOCKED, no caller.
CtrFresh ==
  /\ cvar = "Counter"
  /\ cap = 25
  /\ counter = 0
  /\ csem = UNLOCKED
  /\ cpollers = 0
  /\ cpc = [k \in CtrCalls |-> "idle"]
  /\ cop = [k \in CtrCalls |-> "none"]
  /\ cret = [k \in CtrCalls |-> "none"]

NoCall ==
  [pc |-> "idle", mgr |-> 0, pair |-> 0, entry |-> 0,
   ret |-> "none", sx |-> "none", armed |-> FALSE]

\* Pool managers as constructed: locker UNLOCKED by the initializer (role
\* 0), sem1 UNLOCKED, no pair routed, no connection, no call made.
PoolFresh ==
  /\ locker = UNLOCKED
  /\ lockerOwner = [m \in Mgrs |-> FALSE]
  /\ sem1 = [m \in Mgrs |-> UNLOCKED]
  /\ pairs = [m \in Mgrs |-> [p \in Pairs |-> 0]]
  /\ connects = [m \in Mgrs |-> <<>>]
  /\ calls = [k \in Calls |-> NoCall]
  /\ faults = 0

\* The default configuration: maxPairs 25, several contexts.
PoolDefault ==
  /\ single = FALSE
  /\ maxPairs = 25
  /\ PoolFresh

\* A number with nine decimal places, one more than toFixed(8) keeps: its
\* sign, its integer part and its fraction in units of 10^-9.
Num(neg, whole, nano) == [neg |-> neg, whole |-> whole, nano |-> nano]

\* No update frame received.
NoUpdate ==
  [chanId |-> 0, type |-> "none", id |-> 0, unix |-> 0,
   amount |-> Num(FALSE, 0, 0), price |-> Num(FALSE, 0, 0),
   hasSeq |-> FALSE, seq |-> 0, delivered |-> FALSE]

\* No unsubscribeTrades call: its position (idle, waitReady, waitKey,
\* pending, done), its pair, what its promise resolved to (none, undef,
\* true, false) and whether its frame went out on an open socket.
NoUnsub == [pc |-> "idle", pair |-> 0, res |-> "none", sent |-> FALSE]

\* No BitfinexClient constructed yet: the pool entry has just been made
\* with new Counter(1), its creation flow is about to call locker.enter();
\* the other context's flow is idle.
ConnFresh ==
  /\ socket = "none"
  /\ ready = FALSE
  /\ tradesSub = {}
  /\ channels = {}
  /\ cphase = "wantCreate"
  /\ rwait = FALSE
  /\ rhold = "none"
  /\ other = "idle"
  /\ sub = [p \in ConnPairs |-> "none"]
  /\ armed = {}
  /\ replayWait = 0
  /\ report = "none"
  /\ sentCall = [p \in ConnPairs |-> 0]
  /\ sentReplay = [p \in ConnPairs |-> 0]
  /\ handshaken = FALSE
  /\ shook = FALSE
  /\ reopened = FALSE
  /\ subAtOpen = {}
  /\ sinceHs = "none"
  /\ timerFresh = FALSE
  /\ ping = FALSE
  /\ stale = {}
  /\ count = 1
  /\ unsub = [k \in UCalls |-> NoUnsub]
  /\ unsubSent = {}
  /\ update = NoUpdate
  /\ trades = <<>>

\* A fresh lock word with every handle constructed and idle, as the
\* initializer leaves it.
LockFresh ==
  /\ kind = "Mutex"
  /\ lock = UNLOCKED
  /\ owner = [h \in Handles |-> FALSE]
  /\ pc = [c \in Callers |-> "idle"]
  /\ leaveRet = [c \in Callers |-> "none"]
  /\ polled = [c \in Callers |-> FALSE]
  /\ age = 0
  /\ everAcq = {}
  /\ built = Handles

\* State after construction of every handle: the initializer has stored
\* UNLOCKED.
InitLock ==
  /\ kind \in Kinds
  /\ lock = UNLOCKED
  /\ owner = [h \in Handles |-> FALSE]
  /\ pc = [c \in Callers |-> "idle"]
  /\ leaveRet = [c \in Callers |-> "none"]
  /\ polled = [c \in Callers |-> FALSE]
  /\ age = 0
  /\ everAcq = {}
  /\ built = Handles
  /\ CtrFresh
  /\ PoolDefault
  /\ ConnFresh

\* enter() is called: the polling variants start an interval timer whose
\* first firing is one interval away; the wait/notify variant enters its
\* loop.
Enter(c) ==
  /\ pc[c] = "idle"
  /\ HandleOf(c) \in built
  /\ ThreadFree(HandleOf(c))
  /\ pc' = [pc EXCEPT ![c] = IF kind = "WaitNotify" THEN "wait" ELSE "polling"]
  /\ polled' = [polled EXCEPT ![c] = kind # "WaitNotify"]
  /\ leaveRet' = [leaveRet EXCEPT ![c] = "none"]
  /\ UNCHANGED <<kind, lock, owner, age, everAcq, built, nonLockVars>>

\* The interval callback of a pending enter() fires (once per interval).
Poll(c) ==
  /\ pc[c] = "polling"
  /\ ~polled[c]
  /\ LET t == EnterTick(kind, lock, owner[HandleOf(c)]) IN
       /\ lock' = t.lock
       /\ owner' = [owner EXCEPT ![HandleOf(c)] = t.owner]
       /\ pc' = [pc EXCEPT ![c] = IF t.acquired THEN "held" ELSE "polling"]
       /\ polled' = [polled EXCEPT ![c] = ~t.acquired]
       /\ age' = IF t.acquired THEN 0 ELSE age
       /\ everAcq' = IF t.acquired THEN everAcq \cup {HandleOf(c)} ELSE everAcq
  /\ UNCHANGED <<kind, leaveRet, built, nonLockVars>>

\* One poll interval (10 ms) elapses: every live interval timer has fired.
IntervalElapse ==
  /\ Polling # {}
  /\ \A c \in Polling : polled[c]
  /\ polled' = [c \in Callers |-> FALSE]
  /\ age' = IF lock = UNLOCKED /\ age < 2 THEN age + 1 ELSE age
  /\ UNCHANGED <<kind, lock, owner, pc, leaveRet, everAcq, built, nonLockVars>>

\* Atomics.wait(this.lock, 0, LOCKED): sleeps while the word is LOCKED,
\* returns at once otherwise.
WaitCheck(c) ==
  /\ pc[c] = "wait"
  /\ pc' = [pc EXCEPT ![c] = IF lock = LOCKED THEN "asleep" ELSE "cas"]
  /\ UNCHANGED <<kind, lock, owner, leaveRet, polled, age, everAcq, built, nonLockVars>>

\* The compare-and-swap after Atomics.wait returned.
Cas(c) ==
  /\ pc[c] = "cas"
  /\ LET t == EnterTick(kind, lock, owner[HandleOf(c)]) IN
       /\ lock' = t.lock
       /\ pc' = [pc EXCEPT ![c] = IF t.acquired THEN "held" ELSE "wait"]
       /\ everAcq' = IF t.acquired THEN everAcq \cup {HandleOf(c)} ELSE everAcq
  /\ UNCHANGED <<kind, owner, leaveRet, polled, age, built, nonLockVars>>

\* Atomics.notify(this.lock, 0, 1) wakes one sleeping waiter, if any.
Notify(p, w) ==
  IF kind = "WaitNotify" /\ w # 0 THEN [p EXCEPT ![w] = "cas"] ELSE p

Wakeable == IF kind = "WaitNotify" /\ Asleep # {} THEN Asleep ELSE {0}

\* leave() as called by flow c, whatever c's position.
LeaveCall(c) ==
  LET l == LockLeave(kind, lock, owner[HandleOf(c)]) IN
    /\ lock' = l.lock
    /\ owner' = [owner EXCEPT ![HandleOf(c)] = l.owner]
    /\ leaveRet' = [leaveRet EXCEPT ![c] = l.ret]
    /\ \E w \in Wakeable : pc' = [Notify(pc, w) EXCEPT ![c] = "idle"]
    /\ age' = IF l.ret = "false" THEN age ELSE 0
    /\ UNCHANGED <<kind, polled, everAcq, built, nonLockVars>>

\* The holder releases.
Leave(c) ==
  /\ pc[c] = "held"
  /\ ThreadFree(HandleOf(c))
  /\ LeaveCall(c)

\* A flow that holds nothing calls leave().
StrayLeave(c) ==
  /\ pc[c] = "idle"
  /\ ThreadFree(HandleOf(c))
  /\ LeaveCall(c)

vars == <<lockVars, ctrVars, poolVars, connVars, decVars>>

\* Every release is issued by the current holder.
NextLock ==
  \/ \E c \in Callers : Enter(c)
  \/ \E c \in Callers : Poll(c)
  \/ IntervalElapse
  \/ \E c \in Callers : WaitCheck(c)
  \/ \E c \in Callers : Cas(c)
  \/ \E c \in Callers : Leave(c)

SpecLock == InitLock /\ [][NextLock]_vars

\* The timers of pending enter() calls fire and time advances; a woken
\* thread runs.
FairSpecLock ==
  /\ InitLock
  /\ [][NextLock]_vars
  /\ \A c \in Callers : WF_vars(Poll(c)) /\ WF_vars(WaitCheck(c)) /\ WF_vars(Cas(c))
  /\ WF_vars(IntervalElapse)

\* leave() may be called by any flow at any time.
NextLockAny ==
  \/ \E c \in Callers : Enter(c)
  \/ \E c \in Callers : Poll(c)
  \/ IntervalElapse
  \/ \E c \in Callers : WaitCheck(c)
  \/ \E c \in Callers : Cas(c)
  \/ \E c \in Callers : Leave(c)
  \/ \E c \in Callers : StrayLeave(c)

SpecLockAny == InitLock /\ [][NextLockAny]_vars

\* The handle of the initializer context: createLoc passes init = true to
\* the manager whose id is 0.
Initializer == 1

\* A mutation of MutexConstruct that stores UNLOCKED whatever init.
MutexConstructAlwaysInit(word, init) == UNLOCKED

\* The constructor of the shared-memory Mutex (both variants): a view on
\* the word, and Atomics.store(lock, 0, UNLOCKED) only if init.
MutexConstruct(word, init) == IF init THEN UNLOCKED ELSE word

\* A context constructs its handle on the shared region.
Construct(h) ==
  /\ h \notin built
  /\ built' = built \cup {h}
  /\ lock' = MutexConstruct(lock, h = Initializer)
  /\ UNCHANGED <<kind, owner, pc, leaveRet, polled, age, everAcq, nonLockVars>>

\* A SharedArrayBuffer as allocated, all bytes zero, and no handle on it
\* yet; the Semaphore has its own private buffer and is not concerned.
InitLockZero ==
  /\ kind \in {"Mutex", "WaitNotify"}
  /\ lock = 0
  /\ owner = [h \in Handles |-> FALSE]
  /\ pc = [c \in Callers |-> "idle"]
  /\ leaveRet = [c \in Callers |-> "none"]
  /\ polled = [c \in Callers |-> FALSE]
  /\ age = 0
  /\ everAcq = {}
  /\ built = {}
  /\ CtrFresh
  /\ PoolDefault
  /\ ConnFresh

\* Contexts construct their handles in any order and use them at once;
\* every release is issued by the current holder.
NextLockZero ==
  \/ \E h \in Handles : Construct(h)
  \/ NextLock

SpecLockZero == InitLockZero /\ [][NextLockZero]_vars

\* C1: whatever the implementation (polling Mutex, Semaphore, wait/notify
\* Mutex), when every release is issued by the current holder at most one
\* flow is between a successful acquire and its release, and the word is
\* LOCKED while one is.
C1_MutualExclusion ==
  /\ Cardinality(Holders) <= 1
  /\ Holders # {} => lock = LOCKED

\* A holder, a second flow blocked in acquire on another handle, and the
\* lock has already changed hands between handles.
C1_Witness ==
  /\ \E c \in Holders : \E d \in Blocked : HandleOf(d) # HandleOf(c)
  /\ Cardinality(everAcq) >= 2

\* C3: once the word is UNLOCKED while an acquire is blocked, some blocked
\* acquire succeeds, and it does so before two poll intervals have elapsed;
\* a blocked acquire leaves its wait only by succeeding.
C3_Liveness ==
  /\ (Blocked # {} /\ lock = UNLOCKED) ~> (Holders # {})
  /\ [](age <= 1)
  /\ [][\A c \in Callers : c \in Blocked => pc'[c] \in {"polling", "wait", "asleep", "cas", "held"}]_vars

\* A flow took the lock after having polled in vain while another held it.
C3_Witness ==
  \E c \in Holders : \E d \in Polling :
    /\ HandleOf(c) \in everAcq /\ HandleOf(d) \in everAcq
    /\ ~polled[d]

\* C4: a release() on a Mutex handle all of whose acquires have already
\* been released returns the failure indicator and leaves the word as it was.
C4_SecondReleaseFails ==
  [][\A c \in Callers :
       (/\ kind = "Mutex"
        /\ HandleOf(c) \in everAcq
        /\ \A d \in Holders : HandleOf(d) # HandleOf(c)
        /\ StrayLeave(c))
       => (leaveRet'[c] = "false" /\ lock' = lock)]_vars

\* C5: release() on a Mutex handle that never acquired returns the failure
\* indicator and leaves the lock word exactly as it was.
C5_NeverAcquiredReleaseFails ==
  [][\A c \in Callers :
       (kind = "Mutex" /\ HandleOf(c) \notin everAcq /\ StrayLeave(c))
       => (leaveRet'[c] = "false" /\ lock' = lock)]_vars

\* A handle that never acquired was refused while another handle holds.
C5_Witness ==
  /\ kind = "Mutex"
  /\ lock = LOCKED
  /\ \E c \in Callers :
       /\ leaveRet[c] = "false"
       /\ HandleOf(c) \notin everAcq
       /\ \E d \in Holders : HandleOf(d) # HandleOf(c)

\* C28: on a zero-initialised region no acquire succeeds before the
\* initializer has constructed its handle, which stores UNLOCKED; the
\* construction of any other handle leaves the word as it was; and the
\* initializer's store happens while no flow holds the lock.
C28_InitializerReset ==
  /\ [](everAcq # {} \/ Holders # {} => Initializer \in built)
  /\ [][\A h \in Handles :
          (h \notin built /\ h \in built')
            => IF h = Initializer
                 THEN Holders = {} /\ lock = LOCKED /\ lock' = UNLOCKED
                 ELSE lock' = lock]_vars

\* A flow of a non-initializer handle that polled before the reset holds
\* the lock, a flow of the initializer is blocked behind it, and every
\* handle is constructed.
C28_Witness ==
  /\ built = Handles
  /\ \E c \in Holders :
       /\ HandleOf(c) # Initializer
       /\ \E d \in Blocked : HandleOf(d) = Initializer

(***************************************************************************)
(* Part 2: the Bounded Counter.                                            *)
(***************************************************************************)

CtrOps == {"compareInc", "inc", "dec"}

\* A mutation of CompareInc that compares against the capacity itself.
CompareIncAtCapacity(cnt, value) ==
  IF cnt < value
    THEN [counter |-> cnt + 1, cond |-> "true"]
    ELSE [counter |-> cnt, cond |-> "false"]

\* The body of Counter.compareInc(value) between enter() and leave().
CompareInc(cnt, value) ==
  IF cnt < value - 1
    THEN [counter |-> cnt + 1, cond |-> "true"]
    ELSE [counter |-> cnt, cond |-> "false"]

\* The bodies of Counter.inc() and Counter.dec().
Inc(cnt) == [counter |-> cnt + 1, cond |-> "true"]
Dec(cnt) == [counter |-> cnt - 1, cond |-> "true"]

CtrApply(op, cnt, value) ==
  CASE op = "compareInc" -> CompareInc(cnt, value)
    [] op = "inc" -> Inc(cnt)
    [] OTHER -> Dec(cnt)

\* The model keeps the value the unconditional methods reach within bounds.
CtrInRange(op) ==
  /\ op = "inc" => counter < MaxCount
  /\ op = "dec" => counter >= 0

\* A method of lib/Counter.js runs: this.#semaphore.enter() is called and
\* not awaited (its interval keeps polling), the body runs at once, and
\* this.#semaphore.leave() stores UNLOCKED; all of it in one turn.
CtrCallSync(k, op) ==
  /\ cvar = "Counter"
  /\ cpc[k] = "idle"
  /\ cpollers < MaxPollers
  /\ CtrInRange(op)
  /\ LET r == CtrApply(op, counter, cap) IN
       /\ counter' = r.counter
       /\ cret' = [cret EXCEPT ![k] = r.cond]
  /\ cop' = [cop EXCEPT ![k] = op]
  /\ cpollers' = cpollers + 1
  /\ csem' = SemaphoreLeave(csem, FALSE).lock
  /\ UNCHANGED <<cvar, cap, cpc, nonCtrVars>>

\* The interval of an enter() promise nobody awaits fires.
OrphanPoll ==
  /\ cvar = "Counter"
  /\ cpollers > 0
  /\ LET t == EnterTick("Semaphore", csem, FALSE) IN
       /\ csem' = t.lock
       /\ cpollers' = IF t.acquired THEN cpollers - 1 ELSE cpollers
  /\ UNCHANGED <<cvar, cap, counter, cpc, cop, cret, nonCtrVars>>

\* A method of the awaiting Counter is called: await this.#semaphore.enter().
CtrEnter(k, op) ==
  /\ cvar = "CounterAwait"
  /\ cpc[k] = "idle"
  /\ CtrInRange(op)
  /\ cpc' = [cpc EXCEPT ![k] = "entering"]
  /\ cop' = [cop EXCEPT ![k] = op]
  /\ cret' = [cret EXCEPT ![k] = "none"]
  /\ UNCHANGED <<cvar, cap, counter, csem, cpollers, nonCtrVars>>

\* The interval of the awaited enter() fires.
CtrPoll(k) ==
  /\ cpc[k] = "entering"
  /\ LET t == EnterTick("Semaphore", csem, FALSE) IN
       /\ csem' = t.lock
       /\ cpc' = [cpc EXCEPT ![k] = IF t.acquired THEN "inside" ELSE "entering"]
  /\ UNCHANGED <<cvar, cap, counter, cpollers, cop, cret, nonCtrVars>>

\* The method resumes after its await: body, then this.#semaphore.leave().
CtrBody(k) ==
  /\ cpc[k] = "inside"
  /\ LET r == CtrApply(cop[k], counter, cap) IN
       /\ counter' = r.counter
       /\ cret' = [cret EXCEPT ![k] = r.cond]
  /\ csem' = SemaphoreLeave(csem, FALSE).lock
  /\ cpc' = [cpc EXCEPT ![k] = "idle"]
  /\ UNCHANGED <<cvar, cap, cpollers, cop, nonCtrVars>>

\* new Counter(init) of either class, used with one capacity.
InitCtr ==
  /\ LockFresh
  /\ PoolDefault
  /\ ConnFresh
  /\ cvar \in {"Counter", "CounterAwait"}
  /\ cap \in 1..MaxCap
  /\ counter \in 0..MaxCap
  /\ csem = UNLOCKED
  /\ cpollers = 0
  /\ cpc = [k \in CtrCalls |-> "idle"]
  /\ cop = [k \in CtrCalls |-> "none"]
  /\ cret = [k \in CtrCalls |-> "none"]

NextCtr ==
  \/ \E k \in CtrCalls, op \in CtrOps : CtrCallSync(k, op)
  \/ OrphanPoll
  \/ \E k \in CtrCalls, op \in CtrOps : CtrEnter(k, op)
  \/ \E k \in CtrCalls : CtrPoll(k)
  \/ \E k \in CtrCalls : CtrBody(k)

SpecCounter == InitCtr /\ [][NextCtr]_vars

\* A counter that starts below capacity - 1 and sees compareInc calls only.
InitCtrCmp ==
  /\ InitCtr
  /\ counter < cap - 1

NextCtrCmp ==
  \/ \E k \in CtrCalls : CtrCallSync(k, "compareInc")
  \/ OrphanPoll
  \/ \E k \in CtrCalls : CtrEnter(k, "compareInc")
  \/ \E k \in CtrCalls : CtrPoll(k)
  \/ \E k \in CtrCalls : CtrBody(k)

SpecCounterCmp == InitCtrCmp /\ [][NextCtrCmp]_vars

\* C6: the step in which compareInc(capacity) runs its body on value v adds
\* exactly 1 and returns true when v < capacity - 1, and otherwise leaves
\* the value as it is and returns false.
C6_CompareIncrement ==
  [][\A k \in CtrCalls :
       (CtrCallSync(k, "compareInc") \/ (cop[k] = "compareInc" /\ CtrBody(k)))
       => IF counter < cap - 1
            THEN counter' = counter + 1 /\ cret'[k] = "true"
            ELSE counter' = counter /\ cret'[k] = "false"]_vars

\* One compareInc call has succeeded and another has been refused at
\* capacity - 1.
C6_Witness ==
  /\ counter = cap - 1
  /\ \E k, j \in CtrCalls :
       /\ cop[k] = "compareInc" /\ cret[k] = "true"
       /\ cop[j] = "compareInc" /\ cret[j] = "false"

\* C7 as stated: under compareInc calls alone the value never reaches
\* capacity - 1.
C7_NeverReaches == counter < cap - 1

\* C7 amended: under compareInc calls alone, in any interleaving, the value
\* never exceeds capacity - 1.
C7_NeverExceeds == counter <= cap - 1

\* Two calls in flight at once: one has taken the last slot while the
\* other still waits for the counter's lock, and a third was refused.
C7_Witness ==
  /\ counter = cap - 1
  /\ \E k, j, i \in CtrCalls :
       cret[k] = "true" /\ cpc[j] = "entering" /\ cret[i] = "false"

(***************************************************************************)
(* Part 3: the connection pool manager (BitfinexMultiClient) and the       *)
(* create / reconnect sequences of its pooled connections.  The Counter    *)
(* of an entry is lib/Counter.js, whose methods run in one turn (Part 2):  *)
(* an entry carries the Counter's value.  The awaits inside #getClient     *)
(* are on settled promises, so routing runs in one turn once sem1 is held. *)
(***************************************************************************)

ActiveMgrs == IF single THEN {1} ELSE Mgrs

\* createLoc: a Semaphore in singleThread mode, a Mutex over the shared
\* region otherwise.
LockerKind == IF single THEN "Semaphore" ELSE "Mutex"

Min(S) == CHOOSE x \in S : \A y \in S : x <= y

\* The entry #getClient creates: the promise of a throttled client, whose
\* creation flow starts by calling this.locker.enter(), and new Counter(1).
NewEntry ==
  [count |-> 1, cphase |-> "wantCreate", sock |-> "none", ready |-> FALSE,
   rwait |-> FALSE, rhold |-> "none", tradesSub |-> {}]

\* #getClient(pair) on routing table prs and pool cons.
GetClient(prs, cons, p) ==
  LET routed == prs[p]
      own == IF routed # 0
               THEN CompareInc(cons[routed].count, maxPairs)
               ELSE [counter |-> 0, cond |-> "false"]
      fits == {i \in 1..Len(cons) : CompareInc(cons[i].count, maxPairs).cond = "true"}
  IN IF routed # 0 /\ own.cond = "true"
       THEN [pairs |-> prs,
             connects |-> [cons EXCEPT ![routed].count = own.counter],
             entry |-> routed]
       ELSE IF fits # {}
         THEN LET i == Min(fits) IN
              [pairs |-> [prs EXCEPT ![p] = i],
               connects |-> [cons EXCEPT ![i].count = CompareInc(@, maxPairs).counter],
               entry |-> i]
         ELSE [pairs |-> [prs EXCEPT ![p] = Len(cons) + 1],
               connects |-> Append(cons, NewEntry),
               entry |-> Len(cons) + 1]

\* BitfinexClient.reconnect() up to its await: listeners of the current
\* socket are removed (a reconnect that was waiting for `open` loses its
\* listener), then this.parent.locker.enter() is called.
Reconnect(cl) ==
  [cl EXCEPT !.sock = "dead", !.rwait = TRUE,
             !.rhold = IF @ = "opening" THEN "lost" ELSE @]

\* What this.send does with the socket as it is: ws sends on an open
\* socket; otherwise it throws or drops the frame.
SendOutcomes(cl) == IF cl.sock = "open" THEN {"sent"} ELSE {"throws", "dropped"}

\* BitfinexClient.subscribeTrades(market) once isReady() has resolved:
\* resolve() at once if the pair is subscribed already, send the subscribe
\* frame, arm the response timeout and the once-listener; a throwing send
\* resolves false.
SubscribeTradesBody(call, cl, out) ==
  [call EXCEPT
     !.sx = IF call.pair \in cl.tradesSub THEN "undef"
            ELSE IF out = "throws" THEN "false" ELSE "pending",
     !.armed = out # "throws"]

\* A mutation of EmitSubscribe whose listeners resolve true whatever cond.
EmitSubscribeIgnoreCond(m, e, p, cond) ==
  [k \in Calls |->
     IF calls[k].armed /\ calls[k].mgr = m /\ calls[k].entry = e /\ calls[k].pair = p
       THEN [calls[k] EXCEPT !.armed = FALSE,
                             !.sx = IF @ = "pending" THEN "true" ELSE @]
       ELSE calls[k]]

\* The listeners of `subscribe-<pair>` on client (m, e) run with cond:
\* each clears its timeout and resolves its promise, if still pending.
EmitSubscribe(m, e, p, cond) ==
  [k \in Calls |->
     IF calls[k].armed /\ calls[k].mgr = m /\ calls[k].entry = e /\ calls[k].pair = p
       THEN [calls[k] EXCEPT !.armed = FALSE,
                             !.sx = IF @ = "pending" THEN cond ELSE @]
       ELSE calls[k]]

Entries(m) == 1..Len(connects[m])

\* Managers and pairs are interchangeable: callers name them in order of
\* first use.
UsedUpTo(S) == CHOOSE n \in S : \A x \in S : x <= n

\* subscribeTrades(market) -> subscribe(market, 'trade'): await
\* this.sem1.enter().
SubscribeCall(k, m, p) ==
  /\ calls[k].pc = "idle"
  /\ k > 1 => calls[k - 1].pc # "idle"
  /\ m \in ActiveMgrs
  /\ m <= UsedUpTo({calls[j].mgr : j \in Calls}) + 1
  /\ p <= UsedUpTo({calls[j].pair : j \in Calls}) + 1
  /\ calls' = [calls EXCEPT ![k] = [NoCall EXCEPT !.pc = "wantSem", !.mgr = m, !.pair = p]]
  /\ UNCHANGED <<single, maxPairs, locker, lockerOwner, sem1, pairs, connects, faults, nonPoolVars>>

\* The interval of the call's sem1.enter() fires.
Sem1Poll(k) ==
  /\ calls[k].pc = "wantSem"
  /\ LET m == calls[k].mgr
         t == EnterTick("Semaphore", sem1[m], FALSE) IN
       /\ sem1' = [sem1 EXCEPT ![m] = t.lock]
       /\ calls' = [calls EXCEPT ![k].pc = IF t.acquired THEN "routing" ELSE "wantSem"]
  /\ UNCHANGED <<single, maxPairs, locker, lockerOwner, pairs, connects, faults, nonPoolVars>>

\* subscribe resumes with sem1 held: #getClient, sem1.leave(), then it
\* awaits the entry's client promise.
Route(k) ==
  /\ calls[k].pc = "routing"
  /\ LET m == calls[k].mgr
         g == GetClient(pairs[m], connects[m], calls[k].pair) IN
       /\ pairs' = [pairs EXCEPT ![m] = g.pairs]
       /\ connects' = [connects EXCEPT ![m] = g.connects]
       /\ sem1' = [sem1 EXCEPT ![m] = SemaphoreLeave(@, FALSE).lock]
       /\ calls' = [calls EXCEPT ![k].pc = "awaitClient", ![k].entry = g.entry]
  /\ UNCHANGED <<single, maxPairs, locker, lockerOwner, faults, nonPoolVars>>

\* subscribe resumes with the client: decode() starts
\* client.subscribeTrades(market) and hands back its promise, which is
\* truthy, so subscribe returns true; the dec() below is not reached.
ClientResolved(k) ==
  /\ calls[k].pc = "awaitClient"
  /\ LET cl == connects[calls[k].mgr][calls[k].entry] IN
       /\ cl.cphase = "resolved"
       /\ \E out \in SendOutcomes(cl) :
            calls' = [calls EXCEPT ![k] =
              IF cl.ready
                THEN [SubscribeTradesBody(calls[k], cl, out) EXCEPT !.pc = "done", !.ret = "true"]
                ELSE [calls[k] EXCEPT !.pc = "done", !.ret = "true", !.sx = "waitReady"]]
  /\ UNCHANGED <<single, maxPairs, locker, lockerOwner, sem1, pairs, connects, faults, nonPoolVars>>

\* A mutation of CreatePoll: the creation flow releases the locker as soon
\* as it has constructed the client.
CreatePollReleaseEarly(m, e) ==
  /\ e \in Entries(m)
  /\ connects[m][e].cphase = "wantCreate"
  /\ LET t == EnterTick(LockerKind, locker, lockerOwner[m]) IN
       /\ locker' = IF t.acquired THEN UNLOCKED ELSE t.lock
       /\ lockerOwner' = [lockerOwner EXCEPT ![m] = t.owner]
       /\ connects' = IF t.acquired
            THEN [connects EXCEPT ![m][e].cphase = "connecting", ![m][e].sock = "connecting"]
            ELSE connects
  /\ UNCHANGED <<single, maxPairs, sem1, pairs, calls, faults, nonPoolVars>>

\* #createBasicClientThrottled: the interval of locker.enter() fires; on
\* success the client is constructed (its constructor connects a socket)
\* and the flow waits for the client's `ready`.
CreatePoll(m, e) ==
  /\ e \in Entries(m)
  /\ connects[m][e].cphase = "wantCreate"
  /\ LET t == EnterTick(LockerKind, locker, lockerOwner[m]) IN
       /\ locker' = t.lock
       /\ lockerOwner' = [lockerOwner EXCEPT ![m] = t.owner]
       /\ connects' = IF t.acquired
            THEN [connects EXCEPT ![m][e].cphase = "connecting", ![m][e].sock = "connecting"]
            ELSE connects
  /\ UNCHANGED <<single, maxPairs, sem1, pairs, calls, faults, nonPoolVars>>

\* clearSem after delayMs(throttleMs): locker.leave(), resolve(client).
ThrottleElapsed(m, e) ==
  /\ e \in Entries(m)
  /\ connects[m][e].cphase = "throttle"
  /\ LET l == LockLeave(LockerKind, locker, lockerOwner[m]) IN
       /\ locker' = l.lock
       /\ lockerOwner' = [lockerOwner EXCEPT ![m] = l.owner]
  /\ connects' = [connects EXCEPT ![m][e].cphase = "resolved"]
  /\ UNCHANGED <<single, maxPairs, sem1, pairs, calls, faults, nonPoolVars>>

\* The socket's `open` event: emit open; a reconnect waiting for it
\* schedules locker.leave() after throttleMs.  Its resubscribe loop changes
\* none of the pool's variables: ConnSockOpen of Part 4 models it.
SockOpen(m, e) ==
  /\ e \in Entries(m)
  /\ connects[m][e].sock = "connecting"
  /\ connects' = [connects EXCEPT ![m][e].sock = "open",
                                  ![m][e].rhold = IF @ = "opening" THEN "timer" ELSE @]
  /\ UNCHANGED <<single, maxPairs, locker, lockerOwner, sem1, pairs, calls, faults, nonPoolVars>>

\* An info message with platform.status 1 or code 20061: #ready = true,
\* emit ready: the creation flow starts its throttle delay and the
\* subscribeTrades calls waiting in isReady() go on.
InfoReady(m, e) ==
  /\ e \in Entries(m)
  /\ connects[m][e].sock = "open"
  /\ connects' = [connects EXCEPT ![m][e].ready = TRUE,
                                  ![m][e].cphase = IF @ = "connecting" THEN "throttle" ELSE @]
  /\ calls' = [k \in Calls |->
       IF calls[k].sx = "waitReady" /\ calls[k].mgr = m /\ calls[k].entry = e
         THEN SubscribeTradesBody(calls[k], connects[m][e], "sent")
         ELSE calls[k]]
  /\ UNCHANGED <<single, maxPairs, locker, lockerOwner, sem1, pairs, faults, nonPoolVars>>

\* An info message with platform.status 0 or code 20060: #ready = false.
InfoNotReady(m, e) ==
  /\ e \in Entries(m)
  /\ connects[m][e].sock = "open"
  /\ connects[m][e].ready
  /\ faults < MaxFaults
  /\ faults' = faults + 1
  /\ connects' = [connects EXCEPT ![m][e].ready = FALSE]
  /\ UNCHANGED <<single, maxPairs, locker, lockerOwner, sem1, pairs, calls, nonPoolVars>>

\* An info message with code 20051: this.reconnect().
InfoReconnect(m, e) ==
  /\ e \in Entries(m)
  /\ connects[m][e].sock = "open"
  /\ faults < MaxFaults
  /\ faults' = faults + 1
  /\ connects' = [connects EXCEPT ![m][e] = Reconnect(@)]
  /\ UNCHANGED <<single, maxPairs, locker, lockerOwner, sem1, pairs, calls, nonPoolVars>>

\* The socket's `close` event: this.reconnect().
SockClose(m, e) ==
  /\ e \in Entries(m)
  /\ connects[m][e].sock \in {"connecting", "open"}
  /\ faults < MaxFaults
  /\ faults' = faults + 1
  /\ connects' = [connects EXCEPT ![m][e] = Reconnect(@)]
  /\ UNCHANGED <<single, maxPairs, locker, lockerOwner, sem1, pairs, calls, nonPoolVars>>

\* reconnect(): the interval of locker.enter() fires; on success the new
\* socket is constructed and the flow waits for its `open`.
ReconnectPoll(m, e) ==
  /\ e \in Entries(m)
  /\ connects[m][e].rwait
  /\ LET t == EnterTick(LockerKind, locker, lockerOwner[m]) IN
       /\ locker' = t.lock
       /\ lockerOwner' = [lockerOwner EXCEPT ![m] = t.owner]
       /\ connects' = IF t.acquired
            THEN [connects EXCEPT ![m][e].rwait = FALSE, ![m][e].rhold = "opening",
                                  ![m][e].sock = "connecting"]
            ELSE connects
  /\ UNCHANGED <<single, maxPairs, sem1, pairs, calls, faults, nonPoolVars>>

\* The timer set on `open` by reconnect() fires: locker.leave().
ReconnectTimer(m, e) ==
  /\ e \in Entries(m)
  /\ connects[m][e].rhold = "timer"
  /\ LET l == LockLeave(LockerKind, locker, lockerOwner[m]) IN
       /\ locker' = l.lock
       /\ lockerOwner' = [lockerOwner EXCEPT ![m] = l.owner]
  /\ connects' = [connects EXCEPT ![m][e].rhold = "none"]
  /\ UNCHANGED <<single, maxPairs, sem1, pairs, calls, faults, nonPoolVars>>

\* A `subscribed` message for pair p arrives on the socket of (m, e):
\* emit subscribe-p true; its listeners record the pair and resolve true.
SubConfirm(m, e, p) ==
  /\ e \in Entries(m)
  /\ connects[m][e].sock = "open"
  /\ \E k \in Calls :
       calls[k].armed /\ calls[k].mgr = m /\ calls[k].entry = e /\ calls[k].pair = p
  /\ connects' = [connects EXCEPT ![m][e].tradesSub = @ \cup {p}]
  /\ calls' = EmitSubscribe(m, e, p, "true")
  /\ UNCHANGED <<single, maxPairs, locker, lockerOwner, sem1, pairs, faults, nonPoolVars>>

\* The response timeout of call k fires: emit subscribe-p false.
SubTimeout(k) ==
  /\ calls[k].armed
  /\ calls' = EmitSubscribe(calls[k].mgr, calls[k].entry, calls[k].pair, "false")
  /\ UNCHANGED <<single, maxPairs, locker, lockerOwner, sem1, pairs, connects, faults, nonPoolVars>>

\* Managers constructed with one of the configurations.
InitPool ==
  /\ LockFresh
  /\ CtrFresh
  /\ ConnFresh
  /\ single \in BOOLEAN
  /\ maxPairs \in MaxPairsValues
  /\ PoolFresh

NextPool ==
  \/ \E k \in Calls, m \in Mgrs, p \in Pairs : SubscribeCall(k, m, p)
  \/ \E k \in Calls : Sem1Poll(k)
  \/ \E k \in Calls : Route(k)
  \/ \E k \in Calls : ClientResolved(k)
  \/ \E m \in Mgrs, e \in Calls : CreatePoll(m, e)
  \/ \E m \in Mgrs, e \in Calls : ThrottleElapsed(m, e)
  \/ \E m \in Mgrs, e \in Calls : SockOpen(m, e)
  \/ \E m \in Mgrs, e \in Calls : InfoReady(m, e)
  \/ \E m \in Mgrs, e \in Calls : InfoNotReady(m, e)
  \/ \E m \in Mgrs, e \in Calls : InfoReconnect(m, e)
  \/ \E m \in Mgrs, e \in Calls : SockClose(m, e)
  \/ \E m \in Mgrs, e \in Calls : ReconnectPoll(m, e)
  \/ \E m \in Mgrs, e \in Calls : ReconnectTimer(m, e)
  \/ \E m \in Mgrs, e \in Calls, p \in Pairs : SubConfirm(m, e, p)
  \/ \E k \in Calls : SubTimeout(k)

SpecPool == InitPool /\ [][NextPool]_vars

\* A pooled connection is inside a creation sequence from the construction
\* of its client until the creation flow releases the locker, and inside a
\* reconnect sequence from the construction of its new socket until the
\* flow's timer releases the locker.
\* cphase is "throttle" once the client has emitted `ready` to the creation
\* flow, and rhold is "timer" once the new socket has emitted `open`.
InCreate(cl) == cl.cphase \in {"connecting", "throttle"}

InReconnect(cl) == cl.rhold \in {"opening", "timer", "lost"}

InSequence == {me \in Mgrs \X Calls :
  /\ me[2] \in Entries(me[1])
  /\ InCreate(connects[me[1]][me[2]]) \/ InReconnect(connects[me[1]][me[2]])}

\* C2: across all contexts sharing the lock word at most one pooled
\* connection is inside a create-or-reconnect sequence, and then the lock
\* is held; a socket is constructed only by a step that leaves the lock
\* held with that connection as the one in sequence; the lock is released
\* only by the step that ends a creation after readiness and the throttle
\* delay, or a reconnect after open and the throttle delay.
C2_OneSequence ==
  /\ [](/\ Cardinality(InSequence) <= 1
        /\ (InSequence # {} => locker = LOCKED))
  /\ [][\A m \in Mgrs : \A e \in 1..Len(connects'[m]) :
         (/\ connects'[m][e].sock = "connecting"
          /\ (e \in Entries(m) => connects[m][e].sock # "connecting"))
         => (locker' = LOCKED /\ InSequence' = {<<m, e>>})]_vars
  /\ [][(locker = LOCKED /\ locker' = UNLOCKED)
         => \E m \in Mgrs : \E e \in Entries(m) :
              \/ /\ connects[m][e].cphase = "throttle"
                 /\ connects'[m][e].cphase = "resolved"
              \/ /\ connects[m][e].rhold = "timer"
                 /\ connects'[m][e].rhold = "none"]_vars

\* A reconnect of one context holds the lock after `open`, during its
\* throttle delay, while another context's creation flow is polling.
C2_Witness ==
  /\ ~single
  /\ \E m \in Mgrs, n \in Mgrs :
       /\ m # n
       /\ \E e \in Entries(m) : connects[m][e].rhold = "timer"
       /\ \E e \in Entries(n) : connects[n][e].cphase = "wantCreate"

Routed(m) == {p \in Pairs : pairs[m][p] # 0}

\* C8: with maxPairs = 2, a manager that has routed 3 distinct pairs has
\* exactly 2 pooled connections, and one that has routed 4 has 3.
C8_PoolPacking ==
  \A m \in Mgrs :
    maxPairs = 2 =>
      /\ (Cardinality(Routed(m)) = 3 => Len(connects[m]) = 2)
      /\ (Cardinality(Routed(m)) = 4 => Len(connects[m]) = 3)

\* The calls routed to entry (m, e) whose exchange subscribe resolves
\* false in the step.
FailingOn(m, e) ==
  {k \in Calls : /\ calls[k].mgr = m
                 /\ calls[k].entry = e
                 /\ calls[k].sx # "false"
                 /\ calls'[k].sx = "false"}

\* C9: when the exchange subscribe of a call resolves false, the slot the
\* call reserved in its entry's counter is released.
C9_SlotReleased ==
  [][\A m \in Mgrs : \A e \in Entries(m) :
       FailingOn(m, e) # {} =>
         connects'[m][e].count = connects[m][e].count - Cardinality(FailingOn(m, e))]_vars

\* C10: subscribe(market) has resolved true only if the exchange subscribe
\* of the call has resolved true, and when that has resolved false
\* subscribe(market) has resolved false.
C10_ReflectsOutcome ==
  \A k \in Calls :
    /\ (calls[k].ret = "true" => calls[k].sx = "true")
    /\ (calls[k].sx = "false" => calls[k].ret = "false")

\* C12: a subscribeTrades call that sent its request for a pair not yet
\* subscribed stays pending with its response timeout armed and the pair
\* outside tradesSub; it stops pending either with the confirmation (true,
\* the pair recorded) or, when the timeout fires first, with false and the
\* pair still outside tradesSub.
C12_SubscribeTimeout ==
  /\ [](\A k \in Calls :
          calls[k].sx = "pending"
            => /\ calls[k].armed
               /\ calls[k].pair \notin connects[calls[k].mgr][calls[k].entry].tradesSub)
  /\ [][\A k \in Calls :
          (calls[k].sx = "pending" /\ calls'[k].sx # "pending")
            => IF calls[k].pair \in connects'[calls[k].mgr][calls[k].entry].tradesSub
                 THEN calls'[k].sx = "true"
                 ELSE calls'[k].sx = "false" /\ ~calls'[k].armed]_vars

\* A call whose request went out on an open socket and timed out.
C12_Witness ==
  \E k \in Calls :
    /\ calls[k].sx = "false"
    /\ faults = 0
    /\ connects[calls[k].mgr][calls[k].entry].sock = "open"
    /\ calls[k].pair \notin connects[calls[k].mgr][calls[k].entry].tradesSub

\* C16: release() of the Local Lock (Semaphore) by a caller that holds
\* nothing returns the failure indicator and leaves the lock word as it was.
C16_LocalLockRelease ==
  [][\A c \in Callers :
       (kind = "Semaphore" /\ StrayLeave(c))
       => (leaveRet'[c] = "false" /\ lock' = lock)]_vars

\* C19: the Counter's value changes only in a step of a flow that is inside
\* the critical section of the Counter's own Semaphore: its acquire has
\* succeeded, the word is LOCKED, its release has not run yet.
C19_ChangesInsideLock ==
  [][counter' # counter
       => (csem = LOCKED /\ \E k \in CtrCalls : cpc[k] = "inside" /\ cpc'[k] = "idle")]_vars

\* C24: within one manager no pair is in the subscribed-pairs set of more
\* than one pooled connection.
C24_OneConnectionPerPair ==
  \A m \in Mgrs : \A p \in Pairs :
    Cardinality({e \in Entries(m) : p \in connects[m][e].tradesSub}) <= 1

\* The calls whose exchange subscribe goes from pending to false in the step.
TimedOut ==
  {k \in Calls : calls[k].sx = "pending" /\ calls'[k].sx = "false"}

\* C27: a pending subscribeTrades call resolves false only by the expiry of
\* its own response timeout.  A step is the expiry of one call's timer, so
\* no step fails two pending calls, and a call that fails in a step had its
\* timer armed.
C27_OwnTimeout ==
  [][/\ Cardinality(TimedOut) <= 1
     /\ \A k \in TimedOut : calls[k].armed]_vars

(***************************************************************************)
(* Part 4: one pooled Exchange Connection (BitfinexClient) in detail: its  *)
(* message handler, its creation and reconnect flows over the shared       *)
(* locker, the subscribeTrades calls made on it, and the creation flow of  *)
(* another context contending for the locker.  Time is kept as an order of *)
(* events: sinceHs and timerFresh record whether a whole throttle delay    *)
(* has provably elapsed since the last handshake in the group.             *)
(***************************************************************************)

Blank ==
  [event |-> "none", hasPlatform |-> FALSE, version |-> 0, status |-> 0,
   hasCode |-> FALSE, code |-> 0, channel |-> "none", pair |-> 0,
   chanId |-> 0, type |-> "none", ok |-> FALSE]

\* Frames the exchange may deliver: info with a platform object (version,
\* status), info with a code, bare info, subscribed (channel, pair),
\* unsubscribed (chanId, status OK or not), other events, channel updates
\* [chanId, type, ...] and other arrays.  The channel id bound to a pair is
\* the pair's number.
Messages ==
  {[Blank EXCEPT !.event = "info", !.hasPlatform = TRUE, !.version = v, !.status = st] :
     v \in {1, 2}, st \in {0, 1, 2}}
  \cup {[Blank EXCEPT !.event = "info", !.hasCode = TRUE, !.code = c] :
          c \in {20051, 20060, 20061, 20000}}
  \cup {[Blank EXCEPT !.event = "info"]}
  \cup {[Blank EXCEPT !.event = "subscribed", !.channel = ch, !.pair = p] :
          ch \in {"trades", "book"}, p \in ConnPairs}
  \cup {[Blank EXCEPT !.event = "unsubscribed", !.chanId = c, !.ok = o] :
          c \in ConnPairs, o \in BOOLEAN}
  \cup {[Blank EXCEPT !.event = e] : e \in {"error", "pong", "auth"}}
  \cup {[Blank EXCEPT !.event = "update", !.chanId = c, !.type = t] :
          c \in ConnPairs, t \in {"tu", "te", "hb", "zz"}}
  \cup {[Blank EXCEPT !.event = "array", !.chanId = c] : c \in ConnPairs}

\* A mutation of EmitInfo that reads code 20060 as resumed and 20061 as
\* maintenance.
EmitInfoCodesSwapped(msg) ==
  IF msg.hasPlatform /\ msg.version # 2 THEN "throw"
  ELSE IF msg.hasPlatform /\ msg.status \notin {0, 1} THEN "error"
  ELSE IF msg.hasCode
    THEN CASE msg.code = 20051 -> "reconnect"
           [] msg.code = 20060 -> "ready"
           [] msg.code = 20061 -> "notReady"
           [] OTHER -> "error"
  ELSE IF msg.hasPlatform
    THEN (IF msg.status = 1 THEN "ready" ELSE "notReady")
  ELSE "error"

\* #emitInfo(msg): what the handler does, as a tag.  A platform object with
\* version other than 2 throws; an unknown status or code emits `error` and
\* returns; a code, when present, decides.
EmitInfo(msg) ==
  IF msg.hasPlatform /\ msg.version # 2 THEN "throw"
  ELSE IF msg.hasPlatform /\ msg.status \notin {0, 1} THEN "error"
  ELSE IF msg.hasCode
    THEN CASE msg.code = 20051 -> "reconnect"
           [] msg.code = 20060 -> "notReady"
           [] msg.code = 20061 -> "ready"
           [] OTHER -> "error"
  ELSE IF msg.hasPlatform
    THEN (IF msg.status = 1 THEN "ready" ELSE "notReady")
  ELSE "error"

\* #emitSubscribed(msg).
EmitSubscribed(msg) == IF msg.channel = "trades" THEN "subscribed" ELSE "error"

\* #emitUnsubscribed(msg): nothing when the channel id is not bound;
\* status OK forgets the pair and emits unsubscribe-<pair> true, any other
\* status emits it false.
EmitUnsubscribed(msg) ==
  IF msg.chanId \notin channels THEN "silent"
  ELSE IF msg.ok THEN "unsubscribed" ELSE "unsubFailed"

\* #eventDecode(msg): error events are forwarded to `error`, pong to `pong`;
\* an unknown event emits `error`.
EventDecode(msg) ==
  CASE msg.event = "info" -> EmitInfo(msg)
    [] msg.event = "subscribed" -> EmitSubscribed(msg)
    [] msg.event = "unsubscribed" -> EmitUnsubscribed(msg)
    [] msg.event = "error" -> "error"
    [] msg.event = "pong" -> "silent"
    [] OTHER -> "error"

\* #updateDecode(msg): nothing at all unless the channel id is bound to a
\* pair that is in #tradesSub; then tu emits a trade, te and hb do nothing,
\* any other type emits `error`.
UpdateDecode(msg) ==
  IF msg.chanId \notin channels \/ msg.chanId \notin tradesSub THEN "silent"
  ELSE CASE msg.type = "tu" -> "trade"
         [] msg.type \in {"te", "hb"} -> "silent"
         [] OTHER -> "error"

\* onMessage(msg).
OnMessage(msg) ==
  CASE msg.event = "update" -> UpdateDecode(msg)
    [] msg.event = "array" -> "silent"
    [] OTHER -> EventDecode(msg)

\* The process of context 1 runs: no exception has escaped a handler.
Alive == report # "threw"

\* this.send on the socket as it is (see SendOutcomes).
ConnSendOutcomes == IF socket = "open" THEN {"sent"} ELSE {"throws", "dropped"}

\* subscribeTrades(market) after isReady(), as SubscribeTradesBody: what the
\* call resolves to at once, if anything.
ConnSubResult(p, out) ==
  IF p \in tradesSub THEN "undef" ELSE IF out = "throws" THEN "false" ELSE "pending"

\* The calls suspended in isReady(), which go on when `ready` is emitted.
Waiting == {p \in ConnPairs : sub[p] = "waitReady"}

\* unsubscribeTrades(market) after isReady(): resolve() at once if the pair
\* is not subscribed, and in every case go on to waitKeyInMap(#channelsOp).
UnsubBody(u) ==
  [u EXCEPT !.pc = "waitKey",
            !.res = IF u.pair \in tradesSub THEN "none" ELSE "undef"]

\* unsubscribeTrades(market) once waitKeyInMap has resolved: send the
\* unsubscribe frame with the bound channel id, arm the response timeout
\* and the once-listener; a throwing send resolves false.
UnsubSend(u, out) ==
  IF out = "throws"
    THEN [u EXCEPT !.pc = "done", !.res = IF @ = "none" THEN "false" ELSE @]
    ELSE [u EXCEPT !.pc = "pending", !.sent = (out = "sent")]

\* The listeners of `unsubscribe-<pair>` run with cond: each clears its
\* timeout and resolves its promise, if still pending.
EmitUnsubscribe(p, cond) ==
  [k \in UCalls |->
     IF unsub[k].pc = "pending" /\ unsub[k].pair = p
       THEN [unsub[k] EXCEPT !.pc = "done", !.res = IF @ = "none" THEN cond ELSE @]
       ELSE unsub[k]]

\* The calls of the manager's unsubscribeTrades whose await of the client's
\* promise yields true when unsubscribe-<pair> true is emitted: each runs
\* count.dec().
Released(p) ==
  {k \in UCalls : unsub[k].pc = "pending" /\ unsub[k].pair = p /\ unsub[k].res = "none"}

\* n times Counter.dec().
RECURSIVE DecTimes(_, _)
DecTimes(cnt, n) == IF n = 0 THEN cnt ELSE DecTimes(Dec(cnt).counter, n - 1)

\* #createBasicClientThrottled of context 1: the interval of locker.enter()
\* fires; on success the client is constructed, which connects its socket.
ConnCreatePoll ==
  /\ Alive
  /\ cphase = "wantCreate"
  /\ LET t == EnterTick(LockerKind, locker, lockerOwner[1]) IN
       /\ locker' = t.lock
       /\ lockerOwner' = [lockerOwner EXCEPT ![1] = t.owner]
       /\ cphase' = IF t.acquired THEN "connecting" ELSE cphase
       /\ socket' = IF t.acquired THEN "connecting" ELSE socket
  /\ UNCHANGED <<faults, ready, tradesSub, channels, rwait, rhold, other,
               sub, armed, replayWait, report, sentCall, sentReplay,
               handshaken, shook, reopened, subAtOpen, sinceHs, timerFresh,
               ping, stale, count, unsub, unsubSent,
               nonConnVars>>

\* clearSem after delayMs(throttleMs): locker.leave(), resolve(client).  The
\* delay started at the `ready` event.
ConnThrottleElapsed ==
  /\ Alive
  /\ cphase = "throttle"
  /\ LET l == LockLeave(LockerKind, locker, lockerOwner[1]) IN
       /\ locker' = l.lock
       /\ lockerOwner' = [lockerOwner EXCEPT ![1] = l.owner]
  /\ cphase' = "resolved"
  /\ sinceHs' = IF timerFresh THEN "spaced" ELSE sinceHs
  /\ UNCHANGED <<faults, socket, ready, tradesSub, channels, rwait, rhold,
               other, sub, armed, replayWait, report, sentCall, sentReplay,
               handshaken, shook, reopened, subAtOpen, timerFresh,
               ping, stale, count, unsub, unsubSent,
               nonConnVars>>

\* A mutation of ConnSockOpen without the resubscribe loop.
ConnSockOpenNoReplay ==
  /\ Alive
  /\ socket = "connecting"
  /\ socket' = "open"
  /\ IF rhold = "opening"
       THEN /\ rhold' = "timer"
            /\ timerFresh' = TRUE
            /\ reopened' = TRUE
            /\ subAtOpen' = tradesSub
            /\ sentReplay' = sentReplay
            /\ replayWait' = replayWait
       ELSE UNCHANGED <<rhold, timerFresh, reopened, subAtOpen, sentReplay, replayWait>>
  /\ UNCHANGED <<locker, lockerOwner, faults, ready, tradesSub, channels,
               cphase, rwait, other, sub, armed, report, sentCall,
               handshaken, shook, sinceHs, ping, stale, count, unsub, unsubSent,
               nonConnVars>>

\* The socket's `open` event: emit open.  On a socket constructed by
\* reconnect(), the timer of locker.leave() is set and the resubscribe loop
\* runs: subscribeTrades for every entry of #tradesSub, each call sending
\* its frame once isReady() resolves (at once when #ready is still true)
\* and resolving because the pair is subscribed.  send() restarts the
\* keepalive interval.
ConnSockOpen ==
  /\ Alive
  /\ socket = "connecting"
  /\ socket' = "open"
  /\ IF rhold = "opening"
       THEN /\ rhold' = "timer"
            /\ timerFresh' = TRUE
            /\ reopened' = TRUE
            /\ subAtOpen' = tradesSub
            /\ sentReplay' = [p \in ConnPairs |->
                 IF ready /\ p \in tradesSub THEN sentReplay[p] + 1 ELSE sentReplay[p]]
            /\ replayWait' = IF ~ready /\ tradesSub # {} THEN replayWait + 1 ELSE replayWait
            /\ ping' = (ping \/ (ready /\ tradesSub # {}))
       ELSE UNCHANGED <<rhold, timerFresh, reopened, subAtOpen, sentReplay, replayWait, ping>>
  /\ UNCHANGED <<locker, lockerOwner, faults, ready, tradesSub, channels,
               cphase, rwait, other, sub, armed, report, sentCall,
               handshaken, shook, sinceHs, stale, count, unsub, unsubSent,
               nonConnVars>>

\* The exchange confirms a trades subscription only on a socket on which a
\* subscribe frame for the pair was sent, and answers `unsubscribed` only
\* to an unsubscribe frame for a channel of the socket.
Confirmable(msg) ==
  /\ (msg.event = "subscribed" /\ msg.channel = "trades")
       => sentCall[msg.pair] + sentReplay[msg.pair] > 0
  /\ msg.event = "unsubscribed" => msg.chanId \in unsubSent

\* A frame arrives on the current socket: onMessage.  `ready` runs its
\* listeners: the keepalive starts, the creation flow starts its throttle
\* delay, the suspended subscribeTrades calls and resubscribe loops send
\* their frames, the suspended unsubscribeTrades calls go on.  A reconnect
\* request and a not-ready status stop the keepalive.  `unsubscribed` runs
\* the listeners of the pair's unsubscribe calls, and the manager's
\* unsubscribeTrades of each call that gets true decrements the entry's
\* Counter.
Message(msg) ==
  /\ Alive
  /\ socket = "open"
  /\ Confirmable(msg)
  /\ LET t == OnMessage(msg) IN
       /\ t = "reconnect" => faults < MaxConnCloses
       /\ faults' = IF t = "reconnect" THEN faults + 1 ELSE faults
       /\ report' = CASE t = "throw" -> "threw" [] t = "error" -> "error" [] OTHER -> "none"
       /\ ready' = CASE t = "ready" -> TRUE [] t = "notReady" -> FALSE [] OTHER -> ready
       /\ handshaken' = CASE t = "ready" -> TRUE [] t = "notReady" -> FALSE [] OTHER -> handshaken
       /\ shook' = (shook \/ t = "ready")
       /\ cphase' = IF t = "ready" /\ cphase = "connecting" THEN "throttle" ELSE cphase
       /\ sinceHs' = IF t = "ready" /\ ~shook THEN "fresh" ELSE sinceHs
       /\ timerFresh' = IF t = "ready" /\ ~shook THEN cphase = "connecting" ELSE timerFresh
       /\ socket' = IF t = "reconnect" THEN "closed" ELSE socket
       /\ rwait' = (rwait \/ t = "reconnect")
       /\ channels' = CASE t = "subscribed" -> channels \cup {msg.pair}
                        [] t = "unsubscribed" -> channels \ {msg.chanId}
                        [] OTHER -> channels
       /\ stale' = CASE t = "subscribed" -> stale \ {msg.pair}
                     [] t = "unsubscribed" -> stale \ {msg.chanId}
                     [] OTHER -> stale
       /\ tradesSub' = CASE t = "subscribed" /\ msg.pair \in armed -> tradesSub \cup {msg.pair}
                         [] t = "unsubscribed" -> tradesSub \ {msg.chanId}
                         [] OTHER -> tradesSub
       /\ unsubSent' = IF msg.event = "unsubscribed" THEN unsubSent \ {msg.chanId}
                        ELSE unsubSent
       /\ unsub' = CASE t = "unsubscribed" -> EmitUnsubscribe(msg.chanId, "true")
                     [] t = "unsubFailed" -> EmitUnsubscribe(msg.chanId, "false")
                     [] t = "ready" ->
                          [k \in UCalls |-> IF unsub[k].pc = "waitReady"
                                              THEN UnsubBody(unsub[k]) ELSE unsub[k]]
                     [] OTHER -> unsub
       /\ count' = IF t = "unsubscribed"
                     THEN DecTimes(count, Cardinality(Released(msg.chanId))) ELSE count
       /\ ping' = CASE t = "ready" -> TRUE
                    [] t \in {"notReady", "reconnect"} -> FALSE
                    [] OTHER -> ping
       /\ armed' = CASE t = "subscribed" -> armed \ {msg.pair}
                     [] t = "ready" -> armed \cup Waiting
                     [] OTHER -> armed
       /\ sub' = [p \in ConnPairs |->
            CASE t = "subscribed" /\ p = msg.pair /\ p \in armed /\ sub[p] = "pending" -> "true"
              [] t = "ready" /\ p \in Waiting -> ConnSubResult(p, "sent")
              [] OTHER -> sub[p]]
       /\ sentCall' = [p \in ConnPairs |->
            IF t = "ready" /\ p \in Waiting THEN sentCall[p] + 1 ELSE sentCall[p]]
       /\ sentReplay' = [p \in ConnPairs |->
            IF t = "ready" /\ p \in tradesSub THEN sentReplay[p] + replayWait ELSE sentReplay[p]]
       /\ replayWait' = IF t = "ready" THEN 0 ELSE replayWait
  /\ UNCHANGED <<locker, lockerOwner, rhold, other, reopened, subAtOpen,
               nonConnVars>>

\* The socket's `close` event: this.reconnect(), which stops the
\* keepalive, removes the socket's listeners and awaits
\* parent.locker.enter().
ConnSockClose ==
  /\ Alive
  /\ socket \in {"connecting", "open"}
  /\ faults < MaxConnCloses
  /\ faults' = faults + 1
  /\ socket' = "closed"
  /\ rwait' = TRUE
  /\ rhold' = IF rhold = "opening" THEN "lost" ELSE rhold
  /\ ping' = FALSE
  /\ UNCHANGED <<locker, lockerOwner, ready, tradesSub, channels, cphase,
               other, sub, armed, replayWait, report, sentCall, sentReplay,
               handshaken, shook, reopened, subAtOpen, sinceHs, timerFresh,
               stale, count, unsub, unsubSent,
               nonConnVars>>

\* reconnect(): the interval of locker.enter() fires; on success the new
\* socket is constructed.  #channels and #channelsOp are kept: what they
\* hold was bound on a socket that is no more.
ConnReconnectPoll ==
  /\ Alive
  /\ rwait
  /\ LET t == EnterTick(LockerKind, locker, lockerOwner[1]) IN
       /\ locker' = t.lock
       /\ lockerOwner' = [lockerOwner EXCEPT ![1] = t.owner]
       /\ IF t.acquired
            THEN /\ rwait' = FALSE
                 /\ rhold' = "opening"
                 /\ socket' = "connecting"
                 /\ sentCall' = [p \in ConnPairs |-> 0]
                 /\ sentReplay' = [p \in ConnPairs |-> 0]
                 /\ handshaken' = FALSE
                 /\ shook' = FALSE
                 /\ reopened' = FALSE
                 /\ subAtOpen' = {}
                 /\ stale' = channels
                 /\ unsubSent' = {}
            ELSE UNCHANGED <<rwait, rhold, socket, sentCall, sentReplay, handshaken,
                             shook, reopened, subAtOpen, stale, unsubSent>>
  /\ UNCHANGED <<faults, ready, tradesSub, channels, cphase, other, sub,
               armed, replayWait, report, sinceHs, timerFresh, ping, count, unsub,
               nonConnVars>>

\* The timer reconnect() set on `open` fires: parent.locker.leave().
ConnReconnectTimer ==
  /\ Alive
  /\ rhold = "timer"
  /\ LET l == LockLeave(LockerKind, locker, lockerOwner[1]) IN
       /\ locker' = l.lock
       /\ lockerOwner' = [lockerOwner EXCEPT ![1] = l.owner]
  /\ rhold' = "none"
  /\ sinceHs' = IF timerFresh THEN "spaced" ELSE sinceHs
  /\ UNCHANGED <<faults, socket, ready, tradesSub, channels, cphase, rwait,
               other, sub, armed, replayWait, report, sentCall, sentReplay,
               handshaken, shook, reopened, subAtOpen, timerFresh,
               ping, stale, count, unsub, unsubSent,
               nonConnVars>>

\* The manager's subscribe routes a pair to this entry and calls
\* subscribeTrades(market) on its client: the call that created the entry
\* found its Counter at 1, every later one has counted itself in with
\* compareInc.  isReady() resolves at once when #ready is true and the
\* body runs (see SubscribeTradesBody), otherwise the call waits for
\* `ready`.
ConnSubscribeCall(p) ==
  /\ Alive
  /\ cphase = "resolved"
  /\ count' = IF \A q \in ConnPairs : sub[q] = "none"
                THEN count ELSE CompareInc(count, maxPairs).counter
  /\ IF ready
       THEN \E out \in ConnSendOutcomes :
              /\ sub' = [sub EXCEPT ![p] = ConnSubResult(p, out)]
              /\ armed' = IF out = "throws" THEN armed ELSE armed \cup {p}
              /\ sentCall' = IF out = "sent" THEN [sentCall EXCEPT ![p] = @ + 1] ELSE sentCall
              /\ ping' = IF out = "throws" THEN ping ELSE TRUE
       ELSE /\ sub' = [sub EXCEPT ![p] = "waitReady"]
            /\ UNCHANGED <<armed, sentCall, ping>>
  /\ UNCHANGED <<locker, lockerOwner, faults, socket, ready, tradesSub,
               channels, cphase, rwait, rhold, other, replayWait, report,
               sentReplay, handshaken, shook, reopened, subAtOpen, sinceHs,
               timerFresh, stale, unsub, unsubSent,
               nonConnVars>>

\* The first subscribe call for a pair.
ConnSubscribeTrades(p) ==
  /\ sub[p] = "none"
  /\ ConnSubscribeCall(p)

\* A pair is subscribed again after its earlier call succeeded.
ConnSubscribeAgain(p) ==
  /\ sub[p] = "true"
  /\ ConnSubscribeCall(p)

\* The response timeout of the call for pair p fires: emit subscribe-p
\* false; the listener resolves false.
ConnSubTimeout(p) ==
  /\ Alive
  /\ p \in armed
  /\ armed' = armed \ {p}
  /\ sub' = [sub EXCEPT ![p] = IF @ = "pending" THEN "false" ELSE @]
  /\ UNCHANGED <<locker, lockerOwner, faults, socket, ready, tradesSub,
               channels, cphase, rwait, rhold, other, replayWait, report,
               sentCall, sentReplay, handshaken, shook, reopened, subAtOpen,
               sinceHs, timerFresh, ping, stale, count, unsub, unsubSent,
               nonConnVars>>

\* The manager's unsubscribeTrades(market) for a pair it has routed to
\* this entry: client.unsubscribeTrades(market), whose body runs at once
\* when #ready is true and at the next `ready` otherwise.
UnsubscribeTrades(k, p) ==
  /\ Alive
  /\ cphase = "resolved"
  /\ unsub[k].pc = "idle"
  /\ k > 1 => unsub[k - 1].pc # "idle"
  /\ sub[p] # "none"
  /\ unsub' = [unsub EXCEPT ![k] =
       IF ready THEN UnsubBody([NoUnsub EXCEPT !.pair = p])
                ELSE [NoUnsub EXCEPT !.pair = p, !.pc = "waitReady"]]
  /\ UNCHANGED <<locker, lockerOwner, faults, socket, ready, tradesSub,
               channels, cphase, rwait, rhold, other, sub, armed, replayWait,
               report, sentCall, sentReplay, handshaken, shook, reopened,
               subAtOpen, sinceHs, timerFresh, ping, stale, count, unsubSent,
               nonConnVars>>

\* The interval of the call's waitKeyInMap fires and finds the pair in
\* #channelsOp: the unsubscribe frame is sent with the channel id found
\* there.  The exchange knows the channel if it was bound on this socket.
UnsubKeyPoll(k) ==
  /\ Alive
  /\ unsub[k].pc = "waitKey"
  /\ unsub[k].pair \in channels
  /\ \E out \in ConnSendOutcomes :
       /\ unsub' = [unsub EXCEPT ![k] = UnsubSend(@, out)]
       /\ unsubSent' = IF out = "sent" /\ unsub[k].pair \notin stale
                          THEN unsubSent \cup {unsub[k].pair} ELSE unsubSent
       /\ ping' = IF out = "throws" THEN ping ELSE TRUE
  /\ UNCHANGED <<locker, lockerOwner, faults, socket, ready, tradesSub,
               channels, cphase, rwait, rhold, other, sub, armed, replayWait,
               report, sentCall, sentReplay, handshaken, shook, reopened,
               subAtOpen, sinceHs, timerFresh, stale, count,
               nonConnVars>>

\* The response timeout of unsubscribe call k fires: emit
\* unsubscribe-<pair> false.
UnsubTimeout(k) ==
  /\ Alive
  /\ unsub[k].pc = "pending"
  /\ unsub' = EmitUnsubscribe(unsub[k].pair, "false")
  /\ UNCHANGED <<locker, lockerOwner, faults, socket, ready, tradesSub,
               channels, cphase, rwait, rhold, other, sub, armed, replayWait,
               report, sentCall, sentReplay, handshaken, shook, reopened,
               subAtOpen, sinceHs, timerFresh, ping, stale, count, unsubSent,
               nonConnVars>>

\* The other context starts creating a pooled connection.
OtherEnter ==
  /\ other = "idle"
  /\ other' = "polling"
  /\ UNCHANGED <<locker, lockerOwner, faults, socket, ready, tradesSub,
               channels, cphase, rwait, rhold, sub, armed, replayWait,
               report, sentCall, sentReplay, handshaken, shook, reopened,
               subAtOpen, sinceHs, timerFresh, ping, stale, count, unsub, unsubSent,
               nonConnVars>>

\* The interval of the other context's locker.enter() fires.
OtherPoll ==
  /\ other = "polling"
  /\ LET t == EnterTick(LockerKind, locker, lockerOwner[2]) IN
       /\ locker' = t.lock
       /\ lockerOwner' = [lockerOwner EXCEPT ![2] = t.owner]
       /\ other' = IF t.acquired THEN "connecting" ELSE other
  /\ UNCHANGED <<faults, socket, ready, tradesSub, channels, cphase, rwait,
               rhold, sub, armed, replayWait, report, sentCall, sentReplay,
               handshaken, shook, reopened, subAtOpen, sinceHs, timerFresh,
               ping, stale, count, unsub, unsubSent,
               nonConnVars>>

\* The other context's new connection signals readiness: its throttle
\* delay starts.
OtherReady ==
  /\ other = "connecting"
  /\ other' = "throttle"
  /\ sinceHs' = "fresh"
  /\ timerFresh' = TRUE
  /\ UNCHANGED <<locker, lockerOwner, faults, socket, ready, tradesSub,
               channels, cphase, rwait, rhold, sub, armed, replayWait,
               report, sentCall, sentReplay, handshaken, shook, reopened,
               subAtOpen, ping, stale, count, unsub, unsubSent,
               nonConnVars>>

\* The other context's throttle delay has elapsed: locker.leave().
OtherRelease ==
  /\ other = "throttle"
  /\ other' = "idle"
  /\ LET l == LockLeave(LockerKind, locker, lockerOwner[2]) IN
       /\ locker' = l.lock
       /\ lockerOwner' = [lockerOwner EXCEPT ![2] = l.owner]
  /\ sinceHs' = IF timerFresh THEN "spaced" ELSE sinceHs
  /\ UNCHANGED <<faults, socket, ready, tradesSub, channels, cphase, rwait,
               rhold, sub, armed, replayWait, report, sentCall, sentReplay,
               handshaken, shook, reopened, subAtOpen, timerFresh,
               ping, stale, count, unsub, unsubSent,
               nonConnVars>>

\* Two contexts constructed over one shared buffer; context 1 has just
\* routed its first pair to a new entry.
InitConn ==
  /\ LockFresh
  /\ CtrFresh
  /\ PoolDefault
  /\ ConnFresh

NextConn ==
  \/ ConnCreatePoll
  \/ ConnThrottleElapsed
  \/ ConnSockOpen
  \/ \E msg \in Messages : Message(msg)
  \/ ConnSockClose
  \/ ConnReconnectPoll
  \/ ConnReconnectTimer
  \/ \E p \in ConnPairs : ConnSubscribeTrades(p)
  \/ \E p \in ConnPairs : ConnSubTimeout(p)
  \/ OtherEnter
  \/ OtherPoll
  \/ OtherReady
  \/ OtherRelease

SpecConn == InitConn /\ [][NextConn]_vars

\* The frames that bear on readiness, subscriptions and channel bindings.
StateFrames ==
  {msg \in Messages :
     \/ msg.event = "info" /\ msg.hasPlatform /\ msg.version = 2 /\ msg.status \in {0, 1}
     \/ msg.event = "info" /\ msg.hasCode /\ msg.code \in {20051, 20060, 20061}
     \/ msg.event = "subscribed" /\ msg.channel = "trades"
     \/ msg.event = "unsubscribed"}

\* The connection with repeated subscribe calls, its context alone in the
\* group and the exchange sending well-formed frames.
NextConnAgain ==
  \/ ConnCreatePoll
  \/ ConnThrottleElapsed
  \/ ConnSockOpen
  \/ \E msg \in StateFrames : Message(msg)
  \/ ConnSockClose
  \/ ConnReconnectPoll
  \/ ConnReconnectTimer
  \/ \E p \in ConnPairs : ConnSubscribeTrades(p)
  \/ \E p \in ConnPairs : ConnSubscribeAgain(p)
  \/ \E p \in ConnPairs : ConnSubTimeout(p)

SpecConnAgain == InitConn /\ [][NextConnAgain]_vars

\* The frames of an exchange in steady service: the status-1 info of a new
\* socket and the answers to subscribe and unsubscribe requests.
SteadyFrames ==
  {msg \in Messages :
     \/ msg.event = "info" /\ msg.hasPlatform /\ msg.version = 2 /\ msg.status = 1
     \/ msg.event = "subscribed" /\ msg.channel = "trades"
     \/ msg.event = "unsubscribed"}

\* The connection with subscribe and unsubscribe calls, its context alone
\* in the group and the exchange in steady service; sockets may close.
NextConnUnsub ==
  \/ ConnCreatePoll
  \/ ConnThrottleElapsed
  \/ ConnSockOpen
  \/ \E msg \in SteadyFrames : Message(msg)
  \/ ConnSockClose
  \/ ConnReconnectPoll
  \/ ConnReconnectTimer
  \/ \E p \in ConnPairs : ConnSubscribeTrades(p)
  \/ \E p \in ConnPairs : ConnSubTimeout(p)
  \/ \E k \in UCalls, p \in ConnPairs : UnsubscribeTrades(k, p)
  \/ \E k \in UCalls : UnsubKeyPoll(k)
  \/ \E k \in UCalls : UnsubTimeout(k)

SpecConnUnsub == InitConn /\ [][NextConnUnsub]_vars

\* Timers fire, a poller that finds the word released again and again
\* gets it, sockets that stay up open and receive the exchange's status-1
\* info, and the other context completes what it starts; closes and every
\* other frame may or may not come.
FairSpecConn ==
  /\ SpecConn
  /\ SF_vars(ConnCreatePoll)
  /\ WF_vars(ConnThrottleElapsed)
  /\ WF_vars(ConnSockOpen)
  /\ WF_vars(Message([Blank EXCEPT !.event = "info", !.hasPlatform = TRUE,
                                  !.version = 2, !.status = 1]))
  /\ SF_vars(ConnReconnectPoll)
  /\ WF_vars(ConnReconnectTimer)
  /\ \A p \in ConnPairs : WF_vars(ConnSubTimeout(p))
  /\ SF_vars(OtherPoll)
  /\ WF_vars(OtherReady)
  /\ WF_vars(OtherRelease)

\* The pairs for which a resubscribe loop has sent a subscribe frame on the
\* current socket.
Replayed == {p \in ConnPairs : sentReplay[p] > 0}

\* C11: once a socket constructed by reconnect() has opened with
\* subscribed-pairs set S, the resubscribe loop sends on it a subscribe
\* request for every pair of S and for no other pair: never for a pair
\* outside S, for all of S once the loop is no longer waiting for
\* readiness, and the loop does stop waiting unless the socket closes or
\* the process dies first.
C11_Resubscribe ==
  /\ [](Replayed \subseteq subAtOpen)
  /\ []((reopened /\ replayWait = 0) => Replayed = subAtOpen)
  /\ (reopened /\ replayWait > 0) ~> (replayWait = 0 \/ socket # "open" \/ ~Alive)

\* A reconnect socket on which requests for exactly A and B were sent.
C11_Witness ==
  /\ reopened
  /\ subAtOpen = ConnPairs
  /\ Replayed = ConnPairs
  /\ socket = "open"

\* C13: after every transport close the connection eventually constructs
\* a new socket (while its process runs).
C13_Reconnects ==
  (socket = "closed" /\ Alive) ~> (socket = "connecting" \/ ~Alive)

\* A readiness handshake completes in the step: the first `ready` on a
\* socket of the connection, or the other context's connection's.
Handshake ==
  \/ ~shook /\ shook'
  \/ other = "connecting" /\ other' = "throttle"

\* C14: when a handshake completes anywhere in the group, a whole throttle
\* delay has elapsed since the previous one.
C14_ThrottleWindow == [][Handshake => sinceHs # "fresh"]_vars

\* The frames of Messages that are protocol errors: unsupported version,
\* unknown platform status, unknown info code, info with neither, unknown
\* event, unsupported channel, unknown update type.
ProtocolErrors ==
  {msg \in Messages :
     \/ msg.event = "info" /\ msg.hasPlatform /\ (msg.version # 2 \/ msg.status \notin {0, 1})
     \/ msg.event = "info" /\ msg.hasCode /\ msg.code \notin {20051, 20060, 20061}
     \/ msg.event = "info" /\ ~msg.hasPlatform /\ ~msg.hasCode
     \/ msg.event = "auth"
     \/ msg.event = "subscribed" /\ msg.channel # "trades"
     \/ msg.event = "update" /\ msg.type \notin {"tu", "te", "hb"}}

\* C15: the handler of a protocol-error frame emits `error`, raises no
\* exception, keeps the socket, and leaves #ready, #tradesSub and the
\* channel bindings as they were.
C15_ProtocolErrors ==
  [][\A msg \in ProtocolErrors :
       Message(msg) => (report' = "error" /\ UNCHANGED <<socket, ready, tradesSub, channels>>)]_vars

\* C18: every acquisition of the locker by the connection's creation or
\* reconnect flow, or by the other context, is followed by its release
\* (while the process runs).
C18_LockReleased ==
  (locker = LOCKED /\ Alive) ~> (locker = UNLOCKED \/ ~Alive)

\* C20: a subscribe frame goes out only on an open socket on which the last
\* readiness info marked the connection ready.
C20_ReadinessGating ==
  [][(\E p \in ConnPairs : sentCall'[p] > sentCall[p] \/ sentReplay'[p] > sentReplay[p])
       => (socket' = "open" /\ handshaken')]_vars

\* The info frames that pass the version check, by what they announce.
InfoUp ==
  {msg \in Messages :
     /\ msg.event = "info"
     /\ \/ msg.hasPlatform /\ msg.version = 2 /\ msg.status = 1
        \/ msg.hasCode /\ msg.code = 20061}

InfoDown ==
  {msg \in Messages :
     /\ msg.event = "info"
     /\ \/ msg.hasPlatform /\ msg.version = 2 /\ msg.status = 0
        \/ msg.hasCode /\ msg.code = 20060}

InfoRestart ==
  {msg \in Messages : msg.event = "info" /\ msg.hasCode /\ msg.code = 20051}

InfoUnknown ==
  {msg \in Messages :
     /\ msg.event = "info"
     /\ \/ msg.hasPlatform /\ msg.version = 2 /\ msg.status \notin {0, 1}
        \/ msg.hasCode /\ msg.code \notin {20051, 20060, 20061}}

\* C23: the readiness flag follows the info frames that pass the version
\* check, and nothing else: status 1 or code 20061 sets it and emits
\* `ready` (the keepalive starts, nothing stays suspended in isReady());
\* status 0 or code 20060 clears it and stops the keepalive; code 20051
\* starts a reconnect and leaves it; any other status or code emits `error`
\* and leaves it; no other frame and no other step changes it.
C23_ReadinessFollowsInfo ==
  /\ [][\A msg \in {i \in Messages : i.event = "info"} :
          Message(msg) =>
            CASE msg \in InfoUp ->
                   ready' /\ shook' /\ ping' /\ \A p \in ConnPairs : sub'[p] # "waitReady"
              [] msg \in InfoDown -> ~ready' /\ ~ping'
              [] msg \in InfoRestart -> ready' = ready /\ rwait' /\ socket' = "closed"
              [] msg \in InfoUnknown -> ready' = ready /\ report' = "error"
              [] OTHER -> ready' = ready]_vars
  /\ [][ready' # ready
          => \E msg \in InfoUp \cup InfoDown : Message(msg)]_vars

\* A connection that was marked ready on its socket and then not ready:
\* the flag is down, the keepalive stopped, a call waits in isReady().
C23_Witness ==
  /\ socket = "open"
  /\ shook
  /\ ~ready
  /\ ~ping
  /\ \E p \in ConnPairs : sub[p] = "waitReady"

\* C21: a subscribeTrades call made on a ready connection for a pair that
\* is in the subscribed-pairs set resolves at once and sends no subscribe
\* frame; a call sends its subscribe frame only for a pair that is not in
\* the set.
C21_NoFrameWhenSubscribed ==
  /\ [][\A p \in ConnPairs :
          (ConnSubscribeAgain(p) /\ ready /\ p \in tradesSub)
            => (sub'[p] = "undef" /\ sentCall'[p] = sentCall[p])]_vars
  /\ [][\A p \in ConnPairs :
          sentCall'[p] > sentCall[p] => p \notin tradesSub]_vars

\* C22: an unsubscribeTrades call made on a ready connection for a pair
\* that is not in the subscribed-pairs set resolves at once, and a call
\* that resolved so never sends an unsubscribe frame, whatever happens to
\* the pair later.
C22_NoFrameWhenNotSubscribed ==
  /\ [][\A k \in UCalls, p \in ConnPairs :
          (UnsubscribeTrades(k, p) /\ ready /\ p \notin tradesSub)
            => unsub'[k].res = "undef"]_vars
  /\ [](\A k \in UCalls : unsub[k].res = "undef" => ~unsub[k].sent)

\* C25: the entry's counter is at least the number of pairs subscribed on
\* the entry's connection, hence never negative.
C25_CounterCoversPairs ==
  /\ count >= Cardinality(tradesSub)
  /\ count >= 0

\* C26: an unsubscribe frame sent for a pair carries a channel id that was
\* bound to the pair on the current socket, never one kept from a socket
\* that a reconnect has replaced.
C26_CurrentBinding ==
  [][\A k \in UCalls :
       (~unsub[k].sent /\ unsub'[k].sent)
         => (unsub[k].pair \in channels /\ unsub[k].pair \notin stale)]_vars

(***************************************************************************)
(* Part 5: the trade decoder of #updateDecode as a function of the frame.  *)
(* Numbers carry nine decimal places (Num); a fixed 8-decimal text is its   *)
(* sign, its digits before the point and its 8 digits after it; the text   *)
(* of an integer is its sequence of decimal digits.                        *)
(***************************************************************************)

\* Math.abs.
Abs(x) == [x EXCEPT !.neg = FALSE]

IsPositive(x) == ~x.neg /\ (x.whole > 0 \/ x.nano > 0)

IsNegative(x) == x.neg /\ (x.whole > 0 \/ x.nano > 0)

\* Number.prototype.toFixed(8): the sign of x, then the multiple of 10^-8
\* nearest to |x| (the larger one on a tie), carrying into the integer part.
ToFixed8(x) ==
  LET n == (x.nano + 5) \div 10 IN
    [neg |-> x.neg,
     whole |-> IF n = 100000000 THEN x.whole + 1 ELSE x.whole,
     frac |-> IF n = 100000000 THEN 0 ELSE n]

RECURSIVE DigitsOf(_)
\* id.toFixed() of a nonnegative integer: its decimal digits.
DigitsOf(n) == IF n < 10 THEN <<n>> ELSE Append(DigitsOf(n \div 10), n % 10)

\* A mutation of TradeOf that formats the signed amount.
TradeOfSigned(u) ==
  [tradeId |-> DigitsOf(u.id),
   sequenceId |-> IF u.hasSeq THEN u.seq ELSE 0,
   unix |-> u.unix,
   side |-> IF IsPositive(u.amount) THEN "buy" ELSE "sell",
   price |-> ToFixed8(u.price),
   amount |-> ToFixed8(u.amount)]

\* The record the tu decoder builds from [id, unix, amount, price] and
\* msg[3].
TradeOf(u) ==
  [tradeId |-> DigitsOf(u.id),
   sequenceId |-> IF u.hasSeq THEN u.seq ELSE 0,
   unix |-> u.unix,
   side |-> IF IsPositive(u.amount) THEN "buy" ELSE "sell",
   price |-> ToFixed8(u.price),
   amount |-> ToFixed8(Abs(u.amount))]

\* Update frames of the trades channel: -0.5 at 100.12345678 and values
\* around the eighth decimal place.
Updates ==
  [chanId : ConnPairs, type : {"tu", "te", "hb", "zz"}, id : {7, 9001},
   unix : {1700000000},
   amount : {Num(TRUE, 0, 500000000), Num(TRUE, 0, 15), Num(TRUE, 0, 4),
             Num(FALSE, 0, 4), Num(FALSE, 1, 234567895), Num(FALSE, 0, 999999995)},
   price : {Num(FALSE, 100, 123456780), Num(FALSE, 0, 15), Num(FALSE, 0, 999999995)},
   hasSeq : BOOLEAN, seq : {0, 3}, delivered : {FALSE}]

\* A ready connection with some channels bound and some of their pairs
\* subscribed receives one update frame.
InitDecode ==
  /\ LockFresh
  /\ CtrFresh
  /\ PoolDefault
  /\ socket = "open"
  /\ ready = TRUE
  /\ channels \in SUBSET ConnPairs
  /\ tradesSub \in SUBSET channels
  /\ cphase = "resolved"
  /\ rwait = FALSE
  /\ rhold = "none"
  /\ other = "idle"
  /\ sub = [p \in ConnPairs |-> IF p \in tradesSub THEN "true" ELSE "none"]
  /\ armed = {}
  /\ replayWait = 0
  /\ report = "none"
  /\ sentCall = [p \in ConnPairs |-> IF p \in channels THEN 1 ELSE 0]
  /\ sentReplay = [p \in ConnPairs |-> 0]
  /\ handshaken = TRUE
  /\ shook = TRUE
  /\ reopened = FALSE
  /\ subAtOpen = {}
  /\ sinceHs = "spaced"
  /\ timerFresh = TRUE
  /\ ping = TRUE
  /\ stale = {}
  /\ count = IF channels = {} THEN 1 ELSE Cardinality(channels)
  /\ unsub = [k \in UCalls |-> NoUnsub]
  /\ unsubSent = {}
  /\ update \in {u \in Updates : u.hasSeq \/ u.seq = 0}
  /\ trades = <<>>

\* onMessage hands the frame to #updateDecode.
DecodeUpdate ==
  /\ ~update.delivered
  /\ update' = [update EXCEPT !.delivered = TRUE]
  /\ LET t == UpdateDecode([Blank EXCEPT !.event = "update", !.chanId = update.chanId,
                                         !.type = update.type]) IN
       /\ trades' = IF t = "trade" THEN Append(trades, TradeOf(update)) ELSE trades
       /\ report' = IF t = "error" THEN "error" ELSE "none"
  /\ UNCHANGED <<locker, lockerOwner, faults, socket, ready, tradesSub, channels, cphase,
                 rwait, rhold, other, sub, armed, replayWait, sentCall, sentReplay,
                 handshaken, shook, reopened, subAtOpen, sinceHs, timerFresh,
                 ping, stale, count, unsub, unsubSent,
                 lockVars, ctrVars, single, maxPairs, sem1, pairs, connects, calls>>

NextDecode == DecodeUpdate

SpecDecode == InitDecode /\ [][NextDecode]_vars

RECURSIVE ValueOf(_)
\* The integer a sequence of decimal digits writes.
ValueOf(d) ==
  IF Len(d) = 0 THEN 0 ELSE 10 * ValueOf(SubSeq(d, 1, Len(d) - 1)) + d[Len(d)]

\* A fixed 8-decimal text t writes the absolute value of x: no sign, 8
\* digits after the point, and no other such text is nearer to |x|.
WritesAbs(t, x) ==
  /\ ~t.neg
  /\ t.frac >= 0 /\ t.frac <= 99999999
  /\ t.whole >= 0
  /\ \/ t.whole = x.whole /\ 10 * t.frac - x.nano \in -5..5
     \/ t.whole = x.whole + 1 /\ 1000000000 - x.nano + 10 * t.frac <= 5

\* C17: a tu update on a channel bound to a subscribed pair emits exactly
\* one trade: side sell for a negative amount and buy for a positive one,
\* amount and price the 8-decimal texts of |amount| and of price, tradeId
\* the text of id, sequenceId the fourth element or 0.
C17_TradeDecode ==
  (/\ update.delivered
   /\ update.type = "tu"
   /\ update.chanId \in channels
   /\ update.chanId \in tradesSub)
  => /\ Len(trades) = 1
     /\ (IsNegative(update.amount) => trades[1].side = "sell")
     /\ (IsPositive(update.amount) => trades[1].side = "buy")
     /\ WritesAbs(trades[1].amount, update.amount)
     /\ WritesAbs(trades[1].price, update.price)
     /\ ValueOf(trades[1].tradeId) = update.id
     /\ trades[1].sequenceId = (IF update.hasSeq THEN update.seq ELSE 0)

\* The example: [5, "tu", [9001, 1700000000, -0.5, 100.12345678]].
C17_Witness ==
  /\ Len(trades) = 1
  /\ update.id = 9001
  /\ update.amount = Num(TRUE, 0, 500000000)
  /\ update.price = Num(FALSE, 100, 123456780)
  /\ ~update.hasSeq
  /\ trades[1].side = "sell"
  /\ trades[1].amount = [neg |-> FALSE, whole |-> 0, frac |-> 50000000]
  /\ trades[1].price = [neg |-> FALSE, whole |-> 100, frac |-> 12345678]
  /\ trades[1].tradeId = <<9, 0, 0, 1>>
  /\ trades[1].sequenceId = 0

====
